---- MODULE Spec2Model ----
(***************************************************************************)
(* A model of model.py: the chained Scope and the tree-walking evaluate   *)
(* methods of the ten node classes.                                        *)
(*                                                                         *)
(* Python objects are records tagged by "kind".  The heap of Scope objects *)
(* is the sequence `scopes`; a Scope is referred to by its index and the   *)
(* parent None is index 0.  A raised exception is the field `err` of the   *)
(* evaluation state (its class name, "" when nothing was raised); it       *)
(* propagates through every caller because no method has a try block.      *)
(***************************************************************************)
EXTENDS Integers, Sequences, FiniteSets, TLC

VARIABLES
    scopes,   \* the heap of Scope objects; scopes[1] is the root
    out,      \* the integers print has written
    inp,      \* the integers input() has still to deliver
    last,     \* the last operation done, its inputs and what it returned or raised
    calls     \* history: the FunctionCalls of the last evaluation that reached their body

vars == <<scopes, out, inp, last, calls>>

(***************************************************************************)
(* Bounds of the model.                                                    *)
(***************************************************************************)
MaxScopes == 3
MaxOperand == 5
MaxArgs == 3
MaxDepth == 3

(***************************************************************************)
(* Node constructors (the __init__ methods).                               *)
(***************************************************************************)
NoneValue == [kind |-> "None"]

Number(value) == [kind |-> "Number", value |-> value]

Reference(name) == [kind |-> "Reference", name |-> name]

UnaryOperation(op, expr) == [kind |-> "UnaryOperation", op |-> op, expr |-> expr]

BinaryOperation(lhs, op, rhs) ==
    [kind |-> "BinaryOperation", lhs |-> lhs, op |-> op, rhs |-> rhs]

Function(args, body) == [kind |-> "Function", args |-> args, body |-> body]

FunctionDefinition(name, function) ==
    [kind |-> "FunctionDefinition", name |-> name, func |-> function]

FunctionCall(fun_expr, args) ==
    [kind |-> "FunctionCall", fun_expr |-> fun_expr, args |-> args]

\* A Conditional's branches are Python lists or None: List(items) or NoneValue.
List(items) == [kind |-> "list", items |-> items]

Conditional(condition, if_true, if_false) ==
    [kind |-> "Conditional", condition |-> condition,
     if_true |-> if_true, if_false |-> if_false]

PrintNode(expr) == [kind |-> "Print", expr |-> expr]

Read(name) == [kind |-> "Read", name |-> name]

(***************************************************************************)
(* Python's truth value of an int, of a list or None, and int(bool).       *)
(***************************************************************************)
Truth(x) == x # 0

ListTruth(l) == l.kind = "list" /\ Len(l.items) > 0

ListItems(l) == IF l.kind = "list" THEN l.items ELSE << >>

IntOfBool(b) == IF b THEN 1 ELSE 0

(***************************************************************************)
(* Scope.                                                                  *)
(***************************************************************************)
EmptyDict == [n \in {} |-> NoneValue]

ScopeInit(parent) == [dict |-> EmptyDict, parent |-> parent]

\* Mutant of ScopeGetItem: the parent chain is searched before the own table,
\* so the outermost binding wins.
RECURSIVE ScopeGetItemOutermost(_, _, _)
ScopeGetItemOutermost(heap, self, item) ==
    LET up == IF heap[self].parent # 0
              THEN ScopeGetItemOutermost(heap, heap[self].parent, item)
              ELSE [found |-> FALSE, value |-> NoneValue]
    IN  IF up.found THEN up
        ELSE IF item \in DOMAIN heap[self].dict
             THEN [found |-> TRUE, value |-> heap[self].dict[item]]
             ELSE up

\* Scope.__getitem__: [found |-> BOOLEAN, value |-> the binding]; not found is
\* the `raise Exception` of the root.
RECURSIVE ScopeGetItem(_, _, _)
ScopeGetItem(heap, self, item) ==
    IF item \in DOMAIN heap[self].dict
    THEN [found |-> TRUE, value |-> heap[self].dict[item]]
    ELSE IF heap[self].parent # 0
         THEN ScopeGetItem(heap, heap[self].parent, item)
         ELSE [found |-> FALSE, value |-> NoneValue]

\* dict[key] = value
DictSet(dict, key, value) ==
    [n \in DOMAIN dict \cup {key} |-> IF n = key THEN value ELSE dict[n]]

\* Mutant of ScopeSetItem: an assignment overwrites the nearest existing
\* binding of the chain, and binds in the own table only when there is none.
RECURSIVE NearestBinder(_, _, _)
NearestBinder(heap, self, key) ==
    IF key \in DOMAIN heap[self].dict THEN self
    ELSE IF heap[self].parent = 0 THEN 0
    ELSE NearestBinder(heap, heap[self].parent, key)

ScopeSetItemNonlocal(heap, self, key, value) ==
    LET t == NearestBinder(heap, self, key)
        w == IF t = 0 THEN self ELSE t
    IN  [heap EXCEPT ![w].dict = DictSet(heap[w].dict, key, value)]

\* Scope.__setitem__
ScopeSetItem(heap, self, key, value) ==
    [heap EXCEPT ![self].dict = DictSet(heap[self].dict, key, value)]

(***************************************************************************)
(* The operator tables.                                                    *)
(***************************************************************************)
Abs(x) == IF x < 0 THEN -x ELSE x

\* C's integer division, which truncates toward zero.
TruncDiv(a, b) ==
    IF (a < 0) = (b < 0) THEN Abs(a) \div Abs(b) ELSE -(Abs(a) \div Abs(b))

\* Mutant of FloorDiv: the quotient is left truncated toward zero.
FloorDivTruncating(a, b) == TruncDiv(a, b)

\* operator.floordiv on ints (b # 0): the truncated quotient, one less when the
\* remainder is nonzero and its sign differs from the divisor's.
FloorDiv(a, b) ==
    LET q == TruncDiv(a, b)
        m == a - q * b
    IN  IF m # 0 /\ ((m < 0) # (b < 0)) THEN q - 1 ELSE q

\* operator.mod on ints (b # 0): the remainder of the truncated division,
\* moved by the divisor when its sign differs from the divisor's.
FloorMod(a, b) ==
    LET m == a - TruncDiv(a, b) * b
    IN  IF m # 0 /\ ((m < 0) # (b < 0)) THEN m + b ELSE m

\* Python's `x and y` and `x or y` on ints: one of the operands.
PyAnd(x, y) == IF Truth(x) THEN y ELSE x

PyOr(x, y) == IF Truth(x) THEN x ELSE y

\* Mutant of LogicalAnd: `x and y` without bool().
LogicalAndRaw(x, y) == PyAnd(x, y)

\* lambda x, y: bool(x and y), then Number's int()
LogicalAnd(x, y) == IntOfBool(Truth(PyAnd(x, y)))

\* lambda x, y: bool(x or y), then Number's int()
LogicalOr(x, y) == IntOfBool(Truth(PyOr(x, y)))

\* operator.not_, then Number's int()
LogicalNot(a) == IntOfBool(~Truth(a))

UnaryOpNames == {"-", "!"}

BinaryOpNames ==
    {"+", "-", "*", "/", "%", "==", "!=", "<", ">", "<=", ">=", "&&", "||"}

\* UnaryOperation.ops[op](a), as the int that Number stores.
UnaryOps(op, a) ==
    CASE op = "-" -> [err |-> "", value |-> -a]
      [] op = "!" -> [err |-> "", value |-> LogicalNot(a)]
      [] OTHER -> [err |-> "KeyError", value |-> 0]

\* BinaryOperation.ops[op](l, r), as the int that Number stores.
BinaryOps(op, l, r) ==
    CASE op = "+" -> [err |-> "", value |-> l + r]
      [] op = "-" -> [err |-> "", value |-> l - r]
      [] op = "*" -> [err |-> "", value |-> l * r]
      [] op = "/" -> IF r = 0 THEN [err |-> "ZeroDivisionError", value |-> 0]
                     ELSE [err |-> "", value |-> FloorDiv(l, r)]
      [] op = "%" -> IF r = 0 THEN [err |-> "ZeroDivisionError", value |-> 0]
                     ELSE [err |-> "", value |-> FloorMod(l, r)]
      [] op = "==" -> [err |-> "", value |-> IntOfBool(l = r)]
      [] op = "!=" -> [err |-> "", value |-> IntOfBool(l # r)]
      [] op = "<" -> [err |-> "", value |-> IntOfBool(l < r)]
      [] op = ">" -> [err |-> "", value |-> IntOfBool(l > r)]
      [] op = "<=" -> [err |-> "", value |-> IntOfBool(l <= r)]
      [] op = ">=" -> [err |-> "", value |-> IntOfBool(l >= r)]
      [] op = "&&" -> [err |-> "", value |-> LogicalAnd(l, r)]
      [] op = "||" -> [err |-> "", value |-> LogicalOr(l, r)]
      [] OTHER -> [err |-> "KeyError", value |-> 0]

(***************************************************************************)
(* Evaluation.  An evaluation state st is                                  *)
(*   scopes  the heap of Scope objects                                     *)
(*   out     what print has written                                        *)
(*   inp     what input() has still to deliver                             *)
(*   val     the value returned by the last evaluate                       *)
(*   err     the class of the exception in flight, "" when none            *)
(*   calls   history: one record per FunctionCall that reached its body,   *)
(*           appended when the body is left: the calling scope, the call   *)
(*           scope, the callee, the argument values, the heap before the   *)
(*           parameters were bound, at entry of the body and at its exit,  *)
(*           and what the body returned or raised                          *)
(***************************************************************************)
Raise(st, e) == [st EXCEPT !.err = e, !.val = NoneValue]

Return(st, v) == [st EXCEPT !.val = v]

\* obj.value: Number has the attribute, Function and None have not.
HasValue(obj) == obj.kind = "Number"

RECURSIVE Evaluate(_, _, _)
RECURSIVE FunctionLoop(_, _, _, _)
RECURSIVE ArgumentsLoop(_, _, _, _)
RECURSIVE BindLoop(_, _, _, _, _)
RECURSIVE ConditionalLoop(_, _, _, _)

\* Number.evaluate
NumberEvaluate(self, scope, st) == Return(st, self)

\* Reference.evaluate
ReferenceEvaluate(self, scope, st) ==
    LET r == ScopeGetItem(st.scopes, scope, self.name)
    IN  IF r.found THEN Return(st, r.value) ELSE Raise(st, "Exception")

\* UnaryOperation.evaluate
UnaryOperationEvaluate(self, scope, st) ==
    LET s1 == Evaluate(self.expr, scope, st)
    IN  IF s1.err # "" THEN s1
        ELSE IF ~HasValue(s1.val) THEN Raise(s1, "AttributeError")
        ELSE LET r == UnaryOps(self.op, s1.val.value)
             IN  IF r.err # "" THEN Raise(s1, r.err)
                 ELSE Return(s1, Number(r.value))

\* Mutant of BinaryOperationEvaluate: the right operand is evaluated first.
BinaryOperationEvaluateRightFirst(self, scope, st) ==
    LET s1 == Evaluate(self.rhs, scope, st)
    IN  IF s1.err # "" THEN s1
        ELSE IF ~HasValue(s1.val) THEN Raise(s1, "AttributeError")
        ELSE LET s2 == Evaluate(self.lhs, scope, s1)
             IN  IF s2.err # "" THEN s2
                 ELSE IF ~HasValue(s2.val) THEN Raise(s2, "AttributeError")
                 ELSE LET r == BinaryOps(self.op, s2.val.value, s1.val.value)
                      IN  IF r.err # "" THEN Raise(s2, r.err)
                          ELSE Return(s2, Number(r.value))

\* BinaryOperation.evaluate
BinaryOperationEvaluate(self, scope, st) ==
    LET s1 == Evaluate(self.lhs, scope, st)
    IN  IF s1.err # "" THEN s1
        ELSE IF ~HasValue(s1.val) THEN Raise(s1, "AttributeError")
        ELSE LET s2 == Evaluate(self.rhs, scope, s1)
             IN  IF s2.err # "" THEN s2
                 ELSE IF ~HasValue(s2.val) THEN Raise(s2, "AttributeError")
                 ELSE LET r == BinaryOps(self.op, s1.val.value, s2.val.value)
                      IN  IF r.err # "" THEN Raise(s2, r.err)
                          ELSE Return(s2, Number(r.value))

\* The loop of Function.evaluate from statement i on; st.val is `last`.
FunctionLoop(body, i, scope, st) ==
    IF i > Len(body) THEN st
    ELSE LET s1 == Evaluate(body[i], scope, st)
         IN  IF s1.err # "" THEN s1 ELSE FunctionLoop(body, i + 1, scope, s1)

\* Function.evaluate
FunctionEvaluate(self, scope, st) ==
    FunctionLoop(self.body, 1, scope, Return(st, Number(0)))

\* FunctionDefinition.evaluate
FunctionDefinitionEvaluate(self, scope, st) ==
    Return([st EXCEPT !.scopes = ScopeSetItem(st.scopes, scope, self.name, self.func)],
           self.func)

\* results = [x.evaluate(scope) for x in self.args], from argument i on.
ArgumentsLoop(args, i, scope, acc) ==
    IF i > Len(args) THEN acc
    ELSE LET s1 == Evaluate(args[i], scope, acc.st)
         IN  IF s1.err # "" THEN [st |-> s1, results |-> acc.results]
             ELSE ArgumentsLoop(args, i + 1, scope,
                                [st |-> s1, results |-> Append(acc.results, s1.val)])

\* Mutant of BindLoop: the index starts at 1, as with enumerate(func.args, 1).
RECURSIVE BindLoopShifted(_, _, _, _, _)
BindLoopShifted(params, results, i, call_scope, st) ==
    IF i > Len(params) THEN st
    ELSE IF i + 1 > Len(results) THEN Raise(st, "IndexError")
    ELSE BindLoopShifted(params, results, i + 1, call_scope,
                         [st EXCEPT !.scopes =
                             ScopeSetItem(st.scopes, call_scope, params[i], results[i + 1])])

\* Mutant of BindLoop: zip(func.args, results), which stops at the shorter.
RECURSIVE BindLoopZip(_, _, _, _, _)
BindLoopZip(params, results, i, call_scope, st) ==
    IF i > Len(params) \/ i > Len(results) THEN st
    ELSE BindLoopZip(params, results, i + 1, call_scope,
                     [st EXCEPT !.scopes =
                         ScopeSetItem(st.scopes, call_scope, params[i], results[i])])

\* for i, x in enumerate(func.args): call_scope[x] = results[i], from
\* parameter i on (1-based here); results[i] past the end is an IndexError.
BindLoop(params, results, i, call_scope, st) ==
    IF i > Len(params) THEN st
    ELSE IF i > Len(results) THEN Raise(st, "IndexError")
    ELSE BindLoop(params, results, i + 1, call_scope,
                  [st EXCEPT !.scopes =
                      ScopeSetItem(st.scopes, call_scope, params[i], results[i])])

\* Mutant of CallScopeParent: every call scope hangs off the root scope.
CallScopeParentGlobal(scope) == 1

\* call_scope = Scope(scope)
CallScopeParent(scope) == scope

\* FunctionCall.evaluate
FunctionCallEvaluate(self, scope, st) ==
    LET s1 == Evaluate(self.fun_expr, scope, st)
    IN  IF s1.err # "" THEN s1
        ELSE
        LET func == s1.val
            call_scope == Len(s1.scopes) + 1
            s2 == [s1 EXCEPT !.scopes = Append(s1.scopes, ScopeInit(CallScopeParent(scope)))]
            a == ArgumentsLoop(self.args, 1, scope, [st |-> s2, results |-> << >>])
        IN  IF a.st.err # "" THEN a.st
            ELSE IF func.kind # "Function" THEN Raise(a.st, "AttributeError")
            ELSE
            LET s3 == BindLoop(func.args, a.results, 1, call_scope, a.st)
            IN  IF s3.err # "" THEN s3
                ELSE
                LET s4 == FunctionEvaluate(func, call_scope, s3)
                IN  [s4 EXCEPT !.calls = Append(s4.calls,
                        [caller |-> scope, call_scope |-> call_scope,
                         func |-> func, results |-> a.results,
                         before |-> a.st.scopes, entry |-> s3.scopes,
                         exit |-> s4.scopes, val |-> s4.val, err |-> s4.err])]

\* Mutant of ConditionalBody: a nonzero condition never runs the false-branch.
ConditionalBodyNoFallThrough(val, if_true, if_false) ==
    IF Truth(val) THEN ListItems(if_true) ELSE ListItems(if_false)

\* The branch Conditional.evaluate selects for the condition's value.
ConditionalBody(val, if_true, if_false) ==
    IF Truth(val) /\ ListTruth(if_true) THEN ListItems(if_true)
    ELSE IF ListTruth(if_false) THEN ListItems(if_false)
    ELSE << >>

\* The loop of Conditional.evaluate from statement i on; st.val is `res`.
ConditionalLoop(body, i, scope, st) ==
    IF i > Len(body) THEN st
    ELSE LET s1 == Evaluate(body[i], scope, st)
         IN  IF s1.err # "" THEN s1 ELSE ConditionalLoop(body, i + 1, scope, s1)

\* Conditional.evaluate
ConditionalEvaluate(self, scope, st) ==
    LET s1 == Evaluate(self.condition, scope, st)
    IN  IF s1.err # "" THEN s1
        ELSE IF ~HasValue(s1.val) THEN Raise(s1, "AttributeError")
        ELSE ConditionalLoop(ConditionalBody(s1.val.value, self.if_true, self.if_false),
                             1, scope, Return(s1, NoneValue))

\* Print.evaluate
PrintEvaluate(self, scope, st) ==
    LET s1 == Evaluate(self.expr, scope, st)
    IN  IF s1.err # "" THEN s1
        ELSE IF ~HasValue(s1.val) THEN Raise(s1, "AttributeError")
        ELSE [s1 EXCEPT !.out = Append(s1.out, s1.val.value)]

\* Mutant of ReadEvaluate: the integer read is bound in the root scope.
ReadEvaluateGlobal(self, scope, st) ==
    IF Len(st.inp) = 0 THEN Raise(st, "EOFError")
    ELSE LET a == Head(st.inp)
         IN  Return([st EXCEPT !.inp = Tail(st.inp),
                                !.scopes = ScopeSetItem(st.scopes, 1, self.name, Number(a))],
                    Number(a))

\* Read.evaluate
ReadEvaluate(self, scope, st) ==
    IF Len(st.inp) = 0 THEN Raise(st, "EOFError")
    ELSE LET a == Head(st.inp)
         IN  Return([st EXCEPT !.inp = Tail(st.inp),
                                !.scopes = ScopeSetItem(st.scopes, scope, self.name, Number(a))],
                    Number(a))

\* node.evaluate(scope): Python's dispatch on the class of the node.
Evaluate(node, scope, st) ==
    CASE node.kind = "Number" -> NumberEvaluate(node, scope, st)
      [] node.kind = "Reference" -> ReferenceEvaluate(node, scope, st)
      [] node.kind = "UnaryOperation" -> UnaryOperationEvaluate(node, scope, st)
      [] node.kind = "BinaryOperation" -> BinaryOperationEvaluate(node, scope, st)
      [] node.kind = "Function" -> FunctionEvaluate(node, scope, st)
      [] node.kind = "FunctionDefinition" -> FunctionDefinitionEvaluate(node, scope, st)
      [] node.kind = "FunctionCall" -> FunctionCallEvaluate(node, scope, st)
      [] node.kind = "Conditional" -> ConditionalEvaluate(node, scope, st)
      [] node.kind = "Print" -> PrintEvaluate(node, scope, st)
      [] node.kind = "Read" -> ReadEvaluate(node, scope, st)

(***************************************************************************)
(* One run against a fresh root scope: the `scope` fixture builds a new    *)
(* Scope for every test, the driver binds `root` in it with                *)
(* scope[...] = ..., and node.evaluate(scope) is called once; a run starts *)
(* from the initial state only.                                            *)
(***************************************************************************)
Fixture(root, input) ==
    [scopes |-> << [dict |-> root, parent |-> 0] >>, out |-> << >>, inp |-> input,
     val |-> NoneValue, err |-> "", calls |-> << >>]

Outcome(node, root, input) == Evaluate(node, 1, Fixture(root, input))

Evaluated(test, case, node, root, input, st) ==
    [op |-> "evaluate", test |-> test, case |-> case, node |-> node, root |-> root, input |-> input,
     val |-> st.val, err |-> st.err]

Init ==
    /\ scopes = << ScopeInit(0) >>
    /\ out = << >>
    /\ inp = << >>
    /\ last = [op |-> "init"]
    /\ calls = << >>

(***************************************************************************)
(* SpecScope: the operations of Scope on a heap of up to MaxScopes scopes. *)
(***************************************************************************)
\* The names looked up: test_scope's bar, and one that is never bound.
ScopeNames == {"bar", "missing"}

\* The bindings made: bar = Number(10) and bar = Number(20), as in test_scope.
ScopeBindings == {<<"bar", Number(10)>>, <<"bar", Number(20)>>}

\* Scope(parent), parent None or a scope built before
NewScope ==
    /\ Len(scopes) < MaxScopes
    /\ \E parent \in 0..Len(scopes) :
          /\ scopes' = Append(scopes, ScopeInit(parent))
          /\ last' = [op |-> "new", scope |-> Len(scopes) + 1]
    /\ UNCHANGED <<out, inp, calls>>

\* scope[key] = value
SetItem ==
    /\ \E self \in 1..Len(scopes), kv \in ScopeBindings :
          /\ scopes' = ScopeSetItem(scopes, self, kv[1], kv[2])
          /\ last' = [op |-> "set", scope |-> self, name |-> kv[1], value |-> kv[2]]
    /\ UNCHANGED <<out, inp, calls>>

\* scope[item]
GetItem ==
    /\ \E self \in 1..Len(scopes), item \in ScopeNames :
          LET r == ScopeGetItem(scopes, self, item)
          IN  last' = [op |-> "get", scope |-> self, name |-> item,
                       value |-> r.value,
                       err |-> IF r.found THEN "" ELSE "Exception"]
    /\ UNCHANGED <<scopes, out, inp, calls>>

NextScope == NewScope \/ SetItem \/ GetItem

SpecScope == Init /\ [][NextScope]_vars

(***************************************************************************)
(* SpecOps: the operator tables, applied to literal operands.              *)
(***************************************************************************)
Operands == (-MaxOperand)..MaxOperand

\* "^" is in neither table.
EvaluateBinaryOperation ==
    /\ last.op = "init"
    /\ \E a \in Operands, b \in Operands, op \in BinaryOpNames \cup {"^"} :
          LET node == BinaryOperation(Number(a), op, Number(b))
              st == Outcome(node, EmptyDict, << >>)
          IN  /\ scopes' = st.scopes /\ out' = st.out /\ inp' = st.inp
              /\ calls' = st.calls
              /\ last' = Evaluated("operation", << >>, node, EmptyDict, << >>, st)

EvaluateUnaryOperation ==
    /\ last.op = "init"
    /\ \E a \in Operands, op \in UnaryOpNames \cup {"^"} :
          LET node == UnaryOperation(op, Number(a))
              st == Outcome(node, EmptyDict, << >>)
          IN  /\ scopes' = st.scopes /\ out' = st.out /\ inp' = st.inp
              /\ calls' = st.calls
              /\ last' = Evaluated("operation", << >>, node, EmptyDict, << >>, st)

NextOps == EvaluateBinaryOperation \/ EvaluateUnaryOperation

SpecOps == Init /\ [][NextOps]_vars

(***************************************************************************)
(* Spec: evaluations of function calls, nested calls, operands with side   *)
(* effects and conditionals.                                               *)
(***************************************************************************)
\* The sequences without repetition over S.
InjectiveSeqs(S) ==
    {q \in UNION {[1..n -> S] : n \in 0..Cardinality(S)} :
        \A i, j \in DOMAIN q : q[i] = q[j] => i = j}

SeqsUpTo(S, n) == UNION {[1..m -> S] : m \in 0..n}

ParamNames == {"hello", "world"}

\* Argument expressions: two literals as in test_function_call, a reference to
\* a name the caller binds, and a Read that writes a parameter's name.
ArgExprs ==
    {Number(5), UnaryOperation("-", Number(3)), Reference("hello"), Read("world")}

CallBodies ==
    { << >>,
      << PrintNode(BinaryOperation(Reference("hello"), "+", Reference("world"))) >>,
      << Reference("hello") >>,
      << Reference("world") >>,
      << PrintNode(Number(0)), Reference("world") >> }

\* scope["hello"] = Number(20) before the call
CallRoot == [n \in {"hello"} |-> Number(20)]

\* One integer on the input for every argument.
CallInput == [i \in 1..(MaxArgs + 1) |-> 7 + i]

\* FunctionCall(FunctionDefinition('foo', Function(params, body)), args).evaluate(scope)
EvaluateFunctionCall ==
    /\ last.op = "init"
    /\ \E params \in InjectiveSeqs(ParamNames), args \in SeqsUpTo(ArgExprs, MaxArgs),
          body \in CallBodies :
          LET node == FunctionCall(FunctionDefinition("foo", Function(params, body)), args)
              st == Outcome(node, CallRoot, CallInput)
          IN  /\ scopes' = st.scopes /\ out' = st.out /\ inp' = st.inp
              /\ calls' = st.calls
              /\ last' = Evaluated("function_call", << >>, node, CallRoot, CallInput, st)

\* The functions of a chain of nested calls, all bound in the root scope: the
\* function of level i calls that of level i + 1 with the argument 10 + i + 1,
\* and the innermost returns x.  modes[i] says how level i binds x itself:
\* "param" as its parameter, "read" by a Read in its body, "define" by a
\* FunctionDefinition in its body, "cond" by a Read inside a Conditional of its
\* body, "none" not at all.
LevelNames == << "f1", "f2", "f3", "f4", "f5", "f6" >>

LevelModes == {"none", "param", "read", "define", "cond"}

Defined == Function(<< >>, << >>)

LevelFunction(modes, i) ==
    LET params == IF modes[i] = "param" THEN << "x" >> ELSE << >>
        own == CASE modes[i] = "read" -> << Read("x") >>
                 [] modes[i] = "define" -> << FunctionDefinition("x", Defined) >>
                 [] modes[i] = "cond" ->
                        << Conditional(Number(1), List(<< Read("x") >>), NoneValue) >>
                 [] OTHER -> << >>
        rest == IF i < Len(modes)
                THEN << FunctionCall(Reference(LevelNames[i + 1]), << Number(10 + i + 1) >>) >>
                ELSE << Reference("x") >>
    IN  Function(params, own \o rest)

\* The root scope of a nested run: the functions, and x = 1 when rootx.
NestedRoot(modes, rootx) ==
    [n \in {LevelNames[i] : i \in 1..Len(modes)} \cup (IF rootx THEN {"x"} ELSE {}) |->
        IF n = "x" THEN Number(1)
        ELSE LevelFunction(modes, CHOOSE i \in 1..Len(modes) : LevelNames[i] = n)]

NestedInput == [i \in 1..MaxDepth |-> 20 + i]

\* FunctionCall(Reference('f1'), [Number(11)]).evaluate(scope)
EvaluateNestedCall ==
    /\ last.op = "init"
    /\ \E d \in 1..MaxDepth, rootx \in BOOLEAN :
          \E modes \in [1..d -> LevelModes] :
              LET node == FunctionCall(Reference(LevelNames[1]), << Number(11) >>)
                  root == NestedRoot(modes, rootx)
                  st == Outcome(node, root, NestedInput)
              IN  /\ scopes' = st.scopes /\ out' = st.out /\ inp' = st.inp
                  /\ calls' = st.calls
                  /\ last' = Evaluated("nested_call", [modes |-> modes, rootx |-> rootx],
                                            node, root, NestedInput, st)

\* A function defined inside a call and called from the root scope: maker(x)
\* defines and returns inner, whose body is [x].
Maker ==
    Function(<< "x" >>,
             << FunctionDefinition("inner", Function(<< >>, << Reference("x") >>)) >>)

\* FunctionCall(FunctionCall(Reference('maker'), [Number(v)]), []).evaluate(scope)
EvaluateReturnedFunction ==
    /\ last.op = "init"
    /\ \E v \in 2..MaxOperand, rootx \in BOOLEAN :
          LET node == FunctionCall(FunctionCall(Reference("maker"), << Number(v) >>), << >>)
              root == [n \in {"maker"} \cup (IF rootx THEN {"x"} ELSE {}) |->
                          IF n = "x" THEN Number(1) ELSE Maker]
              st == Outcome(node, root, << >>)
          IN  /\ scopes' = st.scopes /\ out' = st.out /\ inp' = st.inp
              /\ calls' = st.calls
              /\ last' = Evaluated("returned_function", [rootx |-> rootx],
                                        node, root, << >>, st)

\* Operands with side effects.
Effects == {PrintNode(Number(1)), PrintNode(Number(2)), Read("x"), PrintNode(Read("x"))}

EffectOperands ==
    Effects \cup {BinaryOperation(a, "-", b) : a \in Effects, b \in Effects}

\* Enough integers for every Read of a run.
OrderedInput == [i \in 1..(MaxArgs + 4) |-> 10 * i]

\* BinaryOperation(lhs, '-', rhs).evaluate(scope), both operands with effects
EvaluateOrderedOperands ==
    /\ last.op = "init"
    /\ \E lhs \in EffectOperands, rhs \in EffectOperands :
          LET node == BinaryOperation(lhs, "-", rhs)
              st == Outcome(node, EmptyDict, OrderedInput)
          IN  /\ scopes' = st.scopes /\ out' = st.out /\ inp' = st.inp
              /\ calls' = st.calls
              /\ last' = Evaluated("ordered_operands", << >>, node, EmptyDict, OrderedInput, st)

\* A callee expression that prints c and yields the function when c is nonzero
\* (and None when it is 0); the body prints 9.
PrintingCallee(c) ==
    Conditional(PrintNode(Number(c)),
                List(<< FunctionDefinition("foo", Function(<< >>, << PrintNode(Number(9)) >>)) >>),
                NoneValue)

\* FunctionCall(callee, args).evaluate(scope), callee and arguments printing
EvaluateOrderedCall ==
    /\ last.op = "init"
    /\ \E c \in {0, 4}, args \in SeqsUpTo(Effects, MaxArgs) :
          LET node == FunctionCall(PrintingCallee(c), args)
              st == Outcome(node, EmptyDict, OrderedInput)
          IN  /\ scopes' = st.scopes /\ out' = st.out /\ inp' = st.inp
              /\ calls' = st.calls
              /\ last' = Evaluated("ordered_call", << >>, node, EmptyDict, OrderedInput, st)

\* The branches of a Conditional: None, the empty list, a Print of k, and a
\* Print of k followed by a Read of name.
Branches(k, name) ==
    {NoneValue, List(<< >>), List(<< PrintNode(Number(k)) >>),
     List(<< PrintNode(Number(k)), Read(name) >>)}

ConditionalRoot == [n \in {"t", "f"} |-> Number(0)]

\* Conditional(Number(c), if_true, if_false).evaluate(scope)
EvaluateConditional ==
    /\ last.op = "init"
    /\ \E c \in {0, 1, -2}, if_true \in Branches(1, "t"), if_false \in Branches(2, "f") :
          LET node == Conditional(Number(c), if_true, if_false)
              st == Outcome(node, ConditionalRoot, << 8 >>)
          IN  /\ scopes' = st.scopes /\ out' = st.out /\ inp' = st.inp
              /\ calls' = st.calls
              /\ last' = Evaluated("conditional", << >>, node, ConditionalRoot, << 8 >>, st)

Next ==
    \/ EvaluateFunctionCall
    \/ EvaluateNestedCall
    \/ EvaluateReturnedFunction
    \/ EvaluateOrderedOperands
    \/ EvaluateOrderedCall
    \/ EvaluateConditional

Spec == Init /\ [][Next]_vars

(***************************************************************************)
(* Properties of Scope, checked under SpecScope.                           *)
(***************************************************************************)
\* The scopes from s to the root, s first.
RECURSIVE ChainOf(_, _)
ChainOf(heap, s) == IF s = 0 THEN << >> ELSE << s >> \o ChainOf(heap, heap[s].parent)

Ancestors(heap, s) == {ChainOf(heap, s)[i] : i \in 2..Len(ChainOf(heap, s))}

\* C1: after set(n, v) on a scope, get(n) on that scope returns v, also when an
\* ancestor binds n, and the set leaves every other scope as it was: the own
\* table of each ancestor is unchanged and the ancestor's get(n) answers as before.
SetShadowsOwnTableOnly ==
    [][last'.op = "set" =>
          LET s == last'.scope
              n == last'.name
          IN  /\ ScopeGetItem(scopes', s, n) = [found |-> TRUE, value |-> last'.value]
              /\ Len(scopes') = Len(scopes)
              /\ \A t \in 1..Len(scopes) : t # s => scopes'[t] = scopes[t]
              /\ scopes'[s].parent = scopes[s].parent
              /\ \A m \in DOMAIN scopes[s].dict \ {n} :
                     m \in DOMAIN scopes'[s].dict /\ scopes'[s].dict[m] = scopes[s].dict[m]
              /\ \A a \in Ancestors(scopes, s) :
                     /\ scopes'[a].dict = scopes[a].dict
                     /\ ScopeGetItem(scopes', a, n) = ScopeGetItem(scopes, a, n)]_vars

\* C1 witness: a child has just set bar to 20 while its parent binds bar to 10.
SetShadowsWitness ==
    /\ last.op = "set"
    /\ last.name = "bar"
    /\ last.value = Number(20)
    /\ scopes[last.scope].parent # 0
    /\ "bar" \in DOMAIN scopes[scopes[last.scope].parent].dict
    /\ scopes[scopes[last.scope].parent].dict["bar"] = Number(10)

\* The positions in the chain of s whose scope binds n.
Binders(heap, s, n) ==
    {i \in 1..Len(ChainOf(heap, s)) : n \in DOMAIN heap[ChainOf(heap, s)[i]].dict}

Least(S) == CHOOSE i \in S : \A j \in S : i <= j

\* C2: get(n) on s raises (and returns no value) exactly when no scope from s to
\* the root binds n, and otherwise returns the binding of the nearest such scope.
GetFindsNearestOrRaises ==
    last.op = "get" =>
        LET c == ChainOf(scopes, last.scope)
            B == Binders(scopes, last.scope, last.name)
        IN  IF B = {}
            THEN last.err = "Exception" /\ last.value = NoneValue
            ELSE last.err = "" /\ last.value = scopes[c[Least(B)]].dict[last.name]

\* C2 witness: a get of a name that no scope of a chain of three binds, while
\* every scope of the chain binds another name.
GetMissingWitness ==
    /\ last.op = "get"
    /\ last.name = "missing"
    /\ last.err = "Exception"
    /\ Len(ChainOf(scopes, last.scope)) = 3
    /\ \A i \in 1..3 : "bar" \in DOMAIN scopes[ChainOf(scopes, last.scope)[i]].dict

(***************************************************************************)
(* Properties of the operator tables, checked under SpecOps.               *)
(***************************************************************************)
IsBinary(op) ==
    /\ last.op = "evaluate"
    /\ last.node.kind = "BinaryOperation"
    /\ last.node.op = op

IsUnary(op) ==
    /\ last.op = "evaluate"
    /\ last.node.kind = "UnaryOperation"
    /\ last.node.op = op

\* C7: && yields 1 when both operands are nonzero and 0 otherwise, || yields 1
\* when at least one operand is nonzero and 0 otherwise, ! yields 0 for a
\* nonzero operand and 1 for 0; none of them raises.
LogicalOperatorsYieldZeroOrOne ==
    /\ IsBinary("&&") =>
          /\ last.err = ""
          /\ last.val = Number(IF last.node.lhs.value # 0 /\ last.node.rhs.value # 0
                                THEN 1 ELSE 0)
    /\ IsBinary("||") =>
          /\ last.err = ""
          /\ last.val = Number(IF last.node.lhs.value # 0 \/ last.node.rhs.value # 0
                                THEN 1 ELSE 0)
    /\ IsUnary("!") =>
          /\ last.err = ""
          /\ last.val = Number(IF last.node.expr.value # 0 THEN 0 ELSE 1)

\* C7 witness: 5 && -2 has been evaluated (to 1).
LogicalAndWitness ==
    /\ IsBinary("&&")
    /\ last.node.lhs = Number(5)
    /\ last.node.rhs = Number(-2)
    /\ last.val = Number(1)

\* The floor of a/b, for b # 0: the q with q*b <= a < (q+1)*b when b > 0 and
\* with q*b >= a > (q+1)*b when b < 0.
FloorOf(a, b) ==
    CHOOSE q \in (-Abs(a) - 1)..(Abs(a) + 1) :
        IF b > 0 THEN q * b <= a /\ a < (q + 1) * b
                 ELSE q * b >= a /\ a > (q + 1) * b

\* C8: for b # 0, / yields the floor of a/b and % yields the m with
\* a = b * floor(a/b) + m, which is 0 or has the sign of b; for b = 0 both raise
\* ZeroDivisionError (an ArithmeticError) and return nothing.
DivisionFloors ==
    (IsBinary("/") \/ IsBinary("%")) =>
        LET a == last.node.lhs.value
            b == last.node.rhs.value
        IN  IF b = 0
            THEN last.err = "ZeroDivisionError" /\ last.val = NoneValue
            ELSE /\ last.err = ""
                 /\ last.val.kind = "Number"
                 /\ IsBinary("/") => last.val.value = FloorOf(a, b)
                 /\ IsBinary("%") =>
                       /\ a = b * FloorOf(a, b) + last.val.value
                       /\ last.val.value = 0 \/ ((last.val.value < 0) = (b < 0))

\* C8 witness: -5 / 2 has been evaluated (to -3, where truncation gives -2).
DivisionFloorsWitness ==
    /\ IsBinary("/")
    /\ last.node.lhs = Number(-5)
    /\ last.node.rhs = Number(2)
    /\ last.val = Number(-3)

(***************************************************************************)
(* Properties of FunctionCall, checked under Spec.                         *)
(***************************************************************************)
IsFunctionCallRun == last.op = "evaluate" /\ last.test = "function_call"

\* How many of the arguments before the i-th are Reads.
ReadsBefore(args, i) == Cardinality({j \in 1..(i - 1) : args[j].kind = "Read"})

\* What the i-th argument of the run is worth in the calling scope: a literal
\* is its own value, a negated literal the negated value, the reference the
\* caller's binding, and a Read the next integer of the input.
ExpectedArg(args, i) ==
    CASE args[i].kind = "Number" -> args[i]
      [] args[i].kind = "UnaryOperation" -> Number(-(args[i].expr.value))
      [] args[i].kind = "Reference" -> last.root[args[i].name]
      [] args[i].kind = "Read" -> Number(last.input[ReadsBefore(args, i) + 1])

ExpectedResults(args) == [i \in 1..Len(args) |-> ExpectedArg(args, i)]

\* The calling scope's own table once the callee expression and the arguments
\* of the run are evaluated: the caller's bindings, the defined function, and
\* the last integer read (every Read of the run writes "world").
ExpectedCallerDict(node) ==
    LET reads == ReadsBefore(node.args, Len(node.args) + 1)
        d == DictSet(last.root, node.fun_expr.name, node.fun_expr.func)
    IN  IF reads = 0 THEN d ELSE DictSet(d, "world", Number(last.input[reads]))

\* The position of name p in the parameter sequence.
IndexOf(params, p) == CHOOSE i \in 1..Len(params) : params[i] = p

\* C3: a call with at least as many arguments as parameters evaluates every
\* argument against the calling scope (the values are those of the calling
\* scope, what the arguments write lands there and the call scope is still
\* empty), binds exactly the parameters, the i-th to the i-th argument value,
\* leaves further arguments unbound, and returns the value of the last body
\* statement.
CallBindsPositionally ==
    (IsFunctionCallRun /\ Len(last.node.args) >= Len(last.node.fun_expr.func.args)) =>
        LET node == last.node
            F == node.fun_expr.func
            n == Len(F.args)
            c == calls[1]
            cs == c.call_scope
            r == ExpectedResults(node.args)
        IN  /\ Len(calls) = 1
            /\ c.caller = 1 /\ c.func = F
            /\ c.results = r
            /\ c.before[1].dict = ExpectedCallerDict(node)
            /\ c.before[cs].dict = EmptyDict
            /\ DOMAIN c.entry[cs].dict = {F.args[i] : i \in 1..n}
            /\ \A i \in 1..n :
                  ScopeGetItem(c.entry, cs, F.args[i]) = [found |-> TRUE, value |-> r[i]]
            /\ c.entry[1] = c.before[1]
            /\ last.val = c.val /\ last.err = c.err
            /\ F.body = << >> => last.err = "" /\ last.val = Number(0)
            /\ \A p \in {F.args[i] : i \in 1..n} :
                  F.body = << Reference(p) >> =>
                      last.err = "" /\ last.val = r[IndexOf(F.args, p)]
            /\ (n = 2 /\ Len(F.body) = 1 /\ F.body[1].kind = "Print") =>
                  /\ last.err = ""
                  /\ last.val = Number(r[1].value + r[2].value)
                  /\ out = << r[1].value + r[2].value >>

\* C3 witness: parameters (hello, world), body [Print(hello + world)] and the
\* arguments [5, -3, Read(world)]: 2 is printed and returned, and the third
\* argument is bound nowhere but has written the caller's world.
CallBindsWitness ==
    /\ IsFunctionCallRun
    /\ last.node.fun_expr.func.args = << "hello", "world" >>
    /\ last.node.args = << Number(5), UnaryOperation("-", Number(3)), Read("world") >>
    /\ Len(last.node.fun_expr.func.body) = 1
    /\ last.node.fun_expr.func.body[1].kind = "Print"
    /\ out = << 2 >>
    /\ last.val = Number(2)
    /\ scopes[1].dict["world"] = Number(8)

IsFewerArgsRun ==
    IsFunctionCallRun /\ Len(last.node.args) < Len(last.node.fun_expr.func.args)

\* The names a statement of a call body refers to.
RECURSIVE RefsOf(_)
RefsOf(node) ==
    CASE node.kind = "Reference" -> {node.name}
      [] node.kind = "Print" -> RefsOf(node.expr)
      [] node.kind = "BinaryOperation" -> RefsOf(node.lhs) \cup RefsOf(node.rhs)
      [] OTHER -> {}

BodyRefs(body) == UNION {RefsOf(body[i]) : i \in 1..Len(body)}

RECURSIVE ReadsIn(_)
ReadsIn(node) ==
    CASE node.kind = "Read" -> 1
      [] node.kind = "Print" -> ReadsIn(node.expr)
      [] node.kind = "BinaryOperation" -> ReadsIn(node.lhs) + ReadsIn(node.rhs)
      [] OTHER -> 0

RECURSIVE ValOf(_, _)
ValOf(node, k) ==
    CASE node.kind = "Number" -> node.value
      [] node.kind = "Read" -> last.input[k + 1]
      [] node.kind = "Print" -> ValOf(node.expr, k)
      [] node.kind = "BinaryOperation" ->
             ValOf(node.lhs, k) - ValOf(node.rhs, k + ReadsIn(node.lhs))

RECURSIVE OutOf(_, _)
OutOf(node, k) ==
    CASE node.kind = "Print" -> Append(OutOf(node.expr, k), ValOf(node.expr, k))
      [] node.kind = "BinaryOperation" ->
             OutOf(node.lhs, k) \o OutOf(node.rhs, k + ReadsIn(node.lhs))
      [] OTHER -> << >>

\* The same for the arguments of a call from the i-th on.
RECURSIVE ArgsReads(_, _)
ArgsReads(args, i) ==
    IF i > Len(args) THEN 0 ELSE ReadsIn(args[i]) + ArgsReads(args, i + 1)

RECURSIVE ArgsOut(_, _, _)
ArgsOut(args, i, k) ==
    IF i > Len(args) THEN << >>
    ELSE OutOf(args[i], k) \o ArgsOut(args, i + 1, k + ReadsIn(args[i]))

\* C5: the output is one integer per Print evaluated, in evaluation order.  A
\* BinaryOperation's left operand prints, reads and writes the scope before the
\* right one does; a FunctionCall's callee expression prints first, then its
\* arguments from left to right, then the body (which is not entered when the
\* callee is no function, though the arguments were evaluated).
OutputFollowsEvaluationOrder ==
    /\ (last.op = "evaluate" /\ last.test = "ordered_operands") =>
          LET reads == ReadsIn(last.node)
          IN  /\ last.err = ""
              /\ out = OutOf(last.node, 0)
              /\ last.val = Number(ValOf(last.node, 0))
              /\ inp = SubSeq(last.input, reads + 1, Len(last.input))
              /\ reads > 0 => scopes[1].dict["x"] = Number(last.input[reads])
    /\ (last.op = "evaluate" /\ last.test = "ordered_call") =>
          LET c == last.node.fun_expr.condition.expr.value
              args == last.node.args
              reads == ArgsReads(args, 1)
          IN  /\ out = << c >> \o ArgsOut(args, 1, 0) \o (IF c # 0 THEN << 9 >> ELSE << >>)
              /\ inp = SubSeq(last.input, reads + 1, Len(last.input))
              /\ c # 0 => last.err = "" /\ last.val = Number(9)
              /\ c = 0 => last.err = "AttributeError"

\* C5 witness: a call whose callee expression prints 4, whose arguments print
\* 1, the integer read (10) and 2, and whose body prints 9.
OutputOrderWitness ==
    /\ last.op = "evaluate"
    /\ last.test = "ordered_call"
    /\ last.node.args =
          << PrintNode(Number(1)), PrintNode(Read("x")), PrintNode(Number(2)) >>
    /\ out = << 4, 1, 10, 2, 9 >>

(***************************************************************************)
(* Scoping of calls, checked under Spec.                                   *)
(***************************************************************************)
IsNestedRun == last.op = "evaluate" /\ last.test = "nested_call"

\* How many of the levels 1..i read an integer.
ReadsUpTo(modes, i) == Cardinality({j \in 1..i : modes[j] \in {"read", "cond"}})

\* What level i binds x to.
LevelValue(modes, i) ==
    CASE modes[i] = "param" -> Number(10 + i)
      [] modes[i] = "define" -> Defined
      [] OTHER -> Number(last.input[ReadsUpTo(modes, i)])

\* The own table of the call scope of level i.
LevelDict(modes, i) ==
    IF modes[i] = "none" THEN EmptyDict ELSE [n \in {"x"} |-> LevelValue(modes, i)]

BindingLevels(modes) == {i \in 1..Len(modes) : modes[i] # "none"}

Greatest(S) == CHOOSE i \in S : \A j \in S : j <= i

\* C6: the scope of a call has the calling scope as its parent at every depth:
\* in a chain of nested calls the scope of level i hangs off that of level
\* i - 1, and the x of the innermost body is the binding of the deepest active
\* caller that binds x, the root's when none does, and an Exception when the
\* root does not bind it either, although every function was defined in the
\* root scope.  A function defined inside a call and called from the root sees
\* the root's x, not the x of the scope it was defined in.
CallScopeHangsOffCaller ==
    /\ \A k \in 1..Len(calls) :
          calls[k].exit[calls[k].call_scope].parent = calls[k].caller
    /\ IsNestedRun =>
          LET modes == last.case.modes
              B == BindingLevels(modes)
          IN  /\ Len(scopes) = Len(modes) + 1
              /\ \A i \in 1..Len(modes) : scopes[i + 1].parent = i
              /\ B # {} => last.err = "" /\ last.val = LevelValue(modes, Greatest(B))
              /\ (B = {} /\ last.case.rootx) => last.err = "" /\ last.val = Number(1)
              /\ (B = {} /\ ~last.case.rootx) => last.err = "Exception"
    /\ (last.op = "evaluate" /\ last.test = "returned_function") =>
          /\ Len(scopes) = 3
          /\ scopes[2].parent = 1 /\ scopes[3].parent = 1
          /\ scopes[2].dict["x"] = last.node.fun_expr.args[1]
          /\ last.case.rootx => last.err = "" /\ last.val = Number(1)
          /\ ~last.case.rootx => last.err = "Exception"

\* C6 witness: three nested calls, only the outermost binds x (its parameter,
\* 11), the root binds x = 1, and the innermost body has returned 11.
NestedCallWitness ==
    /\ IsNestedRun
    /\ last.case.modes = << "param", "none", "none" >>
    /\ last.case.rootx
    /\ last.val = Number(11)

\* C10: a body never changes a scope that existed when it was entered, other
\* than its call scope: for every call, each scope that existed once the callee
\* and the arguments were evaluated, the calling scope and its ancestors among
\* them, is the same when the body is left, whether it returned or raised.  In
\* a chain of nested calls the root's own table ends as the driver left it and
\* each call scope holds its own binding of x only.
BodyLeavesCallerScopes ==
    /\ \A k \in 1..Len(calls) :
          LET c == calls[k]
          IN  /\ \A t \in 1..Len(c.before) : t # c.call_scope => c.exit[t] = c.before[t]
              /\ \A t \in Ancestors(c.before, c.call_scope) :
                    c.exit[t].dict = c.before[t].dict
              /\ c.caller \in Ancestors(c.before, c.call_scope)
    /\ IsNestedRun =>
          /\ scopes[1].dict = last.root
          /\ \A i \in 1..Len(last.case.modes) :
                scopes[i + 1].dict = LevelDict(last.case.modes, i)

\* C10 witness: the root binds x = 1, the outer call binds x = 11 as its
\* parameter, the inner body read x = 21 (inside a Conditional), and both
\* calls have returned with the three bindings side by side.
BodyLeavesWitness ==
    /\ IsNestedRun
    /\ last.case.modes = << "param", "cond" >>
    /\ last.case.rootx
    /\ last.err = ""
    /\ Len(calls) = 2
    /\ scopes[1].dict["x"] = Number(1)
    /\ scopes[2].dict["x"] = Number(11)
    /\ scopes[3].dict["x"] = Number(21)

(***************************************************************************)
(* Conditional, checked under Spec.                                        *)
(***************************************************************************)
IsConditionalRun == last.op = "evaluate" /\ last.test = "conditional"

NonEmptyList(branch) == branch # NoneValue /\ branch # List(<< >>)

\* What running a branch of the run shows: it prints k, and when it has a
\* second statement, the Read, it binds name to the integer read (8) in the
\* scope given and returns it; otherwise it returns the printed Number.
BranchRan(branch, k, name) ==
    /\ out = << k >>
    /\ IF Len(branch.items) = 2
       THEN /\ scopes[1].dict = DictSet(last.root, name, Number(8))
            /\ last.val = Number(8)
            /\ inp = << >>
       ELSE /\ scopes[1].dict = last.root
            /\ last.val = Number(k)
            /\ inp = last.input

\* C9: a Conditional runs the true-branch iff the condition is nonzero and the
\* true-branch is a non-empty list; otherwise the false-branch iff that is a
\* non-empty list (also for a nonzero condition with an empty or absent
\* true-branch); otherwise nothing, and then it returns None, which is not
\* Number(0).  It runs the branch in the scope it was given and builds no scope.
ConditionalRunsOneBranch ==
    IsConditionalRun =>
        LET c == last.node.condition.value
            runs_true == c # 0 /\ NonEmptyList(last.node.if_true)
            runs_false == ~runs_true /\ NonEmptyList(last.node.if_false)
        IN  /\ last.err = ""
            /\ Len(scopes) = 1
            /\ runs_true => BranchRan(last.node.if_true, 1, "t")
            /\ runs_false => BranchRan(last.node.if_false, 2, "f")
            /\ (~runs_true /\ ~runs_false) =>
                  /\ out = << >>
                  /\ scopes[1].dict = last.root
                  /\ inp = last.input
                  /\ last.val = NoneValue
                  /\ last.val # Number(0)

\* C9 witness: a nonzero condition with an empty true-branch has run the
\* false-branch.
ConditionalFallsThroughWitness ==
    /\ IsConditionalRun
    /\ last.node.condition = Number(1)
    /\ last.node.if_true = List(<< >>)
    /\ last.node.if_false = List(<< PrintNode(Number(2)), Read("f") >>)
    /\ out = << 2 >>
    /\ scopes[1].dict["f"] = Number(8)

====
